---- MODULE Spec2Model ----
(***************************************************************************)
(* sensei-raw-ctl: one invocation of the command-line utility, from        *)
(* parse_options to main's return, against a USB bus whose answers are     *)
(* chosen nondeterministically.                                            *)
(***************************************************************************)
EXTENDS Integers, Sequences, FiniteSets, TLC

\* ---------------------------------------------------------------- bounds

\* Largest number of command-line arguments after argv[0] (Spec).
MaxArgs == 3
\* Largest number of devices on the bus (SpecDiscovery).
MaxDevices == 3
\* Largest number of digits of a CPI argument (SpecCodec).
MaxDigits == 4

\* ------------------------------------------------------ program constants

USB_VENDOR_STEELSERIES == 4152
USB_PRODUCT_STEELSERIES_SENSEI_RAW == 4969
USB_PRODUCT_STEELSERIES_COD_BO2 == 4975

SENSEI_CPI_MIN == 1
SENSEI_CPI_MAX == 63
SENSEI_CPI_STEP == 90

PULSATION_STEADY == 1
PULSATION_SLOW == 2
PULSATION_MEDIUM == 3
PULSATION_FAST == 4
MODE_LEGACY == 1
MODE_NORMAL == 2
INTENSITY_OFF == 1
INTENSITY_LOW == 2
INTENSITY_MEDIUM == 3
INTENSITY_HIGH == 4
POLLING_1000_HZ == 1
POLLING_500_HZ == 2
POLLING_250_HZ == 3
POLLING_125_HZ == 4

EXIT_SUCCESS == 0
EXIT_FAILURE == 1

\* libusb's "operation not supported on this platform".
LIBUSB_ERROR_NOT_SUPPORTED == -12
\* strtol's saturation value, here of a 32-bit long (a 64-bit long saturates
\* alike: every saturated value is far above SENSEI_CPI_MAX steps).
LONG_MAX == 2147483647

\* The errors a failing libusb call returns here: LIBUSB_ERROR_IO and
\* LIBUSB_ERROR_NO_DEVICE (NOT_SUPPORTED is kept apart: only the driver query
\* gives it a meaning).
LibusbErrors == {-1, -4}

\* Length of a command buffer and of the status report.
CmdLength == 32
ReportLength == 256

\* main's product list, in the order find_device_list walks it.
productsSwapped == <<USB_PRODUCT_STEELSERIES_COD_BO2, USB_PRODUCT_STEELSERIES_SENSEI_RAW>>
products == <<USB_PRODUCT_STEELSERIES_SENSEI_RAW, USB_PRODUCT_STEELSERIES_COD_BO2>>

\* --------------------------------------------------------------- helpers

Range(s) == {s[i] : i \in 1..Len(s)}

\* All sequences over S of length at most n.
SeqsUpTo(S, n) == UNION {[1..k -> S] : k \in 0..n}

\* ------------------------------------------------------------- variables

VARIABLES
    argv,             \* command-line arguments getopt_long has not consumed yet
    options,          \* struct options: the eight request flags
    new_config,       \* struct sensei_config filled by parse_options
    pc,               \* position in main
    attached,         \* the USB bus: the devices libusb_get_device_list returns
    report,           \* the attached mouse's settings, as its status report holds them
    n_products,       \* find_device_list: index of the next product id to try
    err,              \* find_device_list: err
    device,           \* main: the open handle (index into attached), 0 for NULL
    result,           \* main: result
    status,           \* main: status
    reattach_driver,  \* main: reattach_driver
    cursor,           \* apply_options: index of the next statement of its write sequence
    calls,            \* every libusb call made so far, with its result
    stderr,           \* lines written to stderr
    stdout,           \* lines written to stdout
    exit_code,        \* the process exit status, -1 while running
    out_of_order      \* history: some option followed one that apply_options sends later

vars == <<argv, options, new_config, pc, attached, report, n_products, err, device,
          result, status, reattach_driver, cursor, calls, stderr, stdout, exit_code,
          out_of_order>>

parseVars == <<argv, options, new_config, out_of_order>>
busVars == <<attached, report>>
mainVars == <<n_products, err, device, result, status, reattach_driver, cursor>>

\* ---------------------------------------------------------- option parser

noOptions == [show_config |-> FALSE, save_to_rom |-> FALSE, set_pulsation |-> FALSE,
              set_mode |-> FALSE, set_intensity |-> FALSE, set_polling |-> FALSE,
              set_cpi_off |-> FALSE, set_cpi_on |-> FALSE]

noConfig == [mode |-> 0, cpi_off |-> 0, cpi_on |-> 0, pulsation |-> 0,
             intensity |-> 0, polling |-> 0]

\* tolower() over the spellings the model's command lines use.
ToLower(s) ==
    CASE s = "NORMAL" -> "normal"
      [] s = "Legacy" -> "legacy"
      [] s = "Slow" -> "slow"
      [] s = "HIGH" -> "high"
      [] OTHER -> s

\* strcasecmp (a, b) == 0
strcasecmp0(a, b) == ToLower(a) = ToLower(b)

\* A string argument is a sequence of one-character strings where the program
\* reads it character by character (the CPI values).
DigitVal(c) ==
    CASE c = "0" -> 0 [] c = "1" -> 1 [] c = "2" -> 2 [] c = "3" -> 3 [] c = "4" -> 4
      [] c = "5" -> 5 [] c = "6" -> 6 [] c = "7" -> 7 [] c = "8" -> 8 [] c = "9" -> 9
      [] OTHER -> -1

IsDigit(c) == DigitVal(c) >= 0

\* Accumulates the digits of str from index i on: <<value, index after the digits>>,
\* the value saturating at LONG_MAX.
RECURSIVE StrtolDigits(_, _, _)
StrtolDigits(str, i, acc) ==
    IF i > Len(str) \/ ~IsDigit(str[i]) THEN <<acc, i>>
    ELSE LET d == DigitVal(str[i])
         IN  StrtolDigits(str, i + 1,
                 IF acc > (LONG_MAX - d) \div 10 THEN LONG_MAX ELSE acc * 10 + d)

RECURSIVE SkipSpace(_, _)
SkipSpace(str, i) ==
    IF i <= Len(str) /\ str[i] = " " THEN SkipSpace(str, i + 1) ELSE i

\* strtol (str, &end, 10): [val, end], end the index of the first character not
\* converted (1 when no digits were found).
strtol(str) ==
    LET i == SkipSpace(str, 1)
        neg == i <= Len(str) /\ str[i] = "-"
        j == IF i <= Len(str) /\ str[i] \in {"-", "+"} THEN i + 1 ELSE i
        r == StrtolDigits(str, j, 0)
    IN  IF r[2] = j THEN [val |-> 0, end |-> 1]
        ELSE [val |-> IF neg THEN 0 - r[1] ELSE r[1], end |-> r[2]]

\* C's truncating division.
CDiv(a, b) == IF a >= 0 THEN a \div b ELSE 0 - ((0 - a) \div b)

\* encode_cpi clamping from SENSEI_CPI_MAX on ("cpi >= SENSEI_CPI_MAX").
encode_cpi_clamps_max(str) ==
    LET t == strtol(str)
        q == CDiv(t.val, SENSEI_CPI_STEP)
        low == q < 1
        c1 == IF low THEN 1 ELSE q
        high == c1 >= SENSEI_CPI_MAX
        c2 == IF high THEN SENSEI_CPI_MAX ELSE c1
    IN  IF Len(str) = 0 \/ t.end <= Len(str) \/ t.val < 0
        THEN [ok |-> FALSE, cpi |-> 0, notices |-> <<>>]
        ELSE [ok |-> TRUE, cpi |-> c2,
              notices |-> (IF low THEN <<"CPI too low">> ELSE <<>>)
                          \o (IF high THEN <<"CPI too high">> ELSE <<>>)]

\* encode_cpi without the lower clamp.
encode_cpi_from_zero(str) ==
    LET t == strtol(str)
        q == CDiv(t.val, SENSEI_CPI_STEP)
        high == q > SENSEI_CPI_MAX
        c2 == IF high THEN SENSEI_CPI_MAX ELSE q
    IN  IF Len(str) = 0 \/ t.end <= Len(str) \/ t.val < 0
        THEN [ok |-> FALSE, cpi |-> 0, notices |-> <<>>]
        ELSE [ok |-> TRUE, cpi |-> c2,
              notices |-> IF high THEN <<"CPI too high">> ELSE <<>>]

\* encode_cpi without the upper clamp.
encode_cpi_unclamped(str) ==
    LET t == strtol(str)
        q == CDiv(t.val, SENSEI_CPI_STEP)
        low == q < 1
        c1 == IF low THEN 1 ELSE q
    IN  IF Len(str) = 0 \/ t.end <= Len(str) \/ t.val < 0
        THEN [ok |-> FALSE, cpi |-> 0, notices |-> <<>>]
        ELSE [ok |-> TRUE, cpi |-> c1,
              notices |-> (IF low THEN <<"CPI too low">> ELSE <<>>)
                          \o (IF c1 > SENSEI_CPI_MAX THEN <<"CPI too high">> ELSE <<>>)]

\* encode_cpi clamping without a word to the user.
encode_cpi_silent(str) ==
    LET t == strtol(str)
        q == CDiv(t.val, SENSEI_CPI_STEP)
        c1 == IF q < 1 THEN 1 ELSE q
        c2 == IF c1 > SENSEI_CPI_MAX THEN SENSEI_CPI_MAX ELSE c1
    IN  IF Len(str) = 0 \/ t.end <= Len(str) \/ t.val < 0
        THEN [ok |-> FALSE, cpi |-> 0, notices |-> <<>>]
        ELSE [ok |-> TRUE, cpi |-> c2, notices |-> <<>>]

\* encode_cpi: [ok, cpi, notices]; ok = FALSE is the exit (EXIT_FAILURE) path.
encode_cpi(str) ==
    LET t == strtol(str)
        q == CDiv(t.val, SENSEI_CPI_STEP)
        low == q < 1
        c1 == IF low THEN 1 ELSE q
        high == c1 > SENSEI_CPI_MAX
        c2 == IF high THEN SENSEI_CPI_MAX ELSE c1
    IN  IF Len(str) = 0 \/ t.end <= Len(str) \/ t.val < 0
        THEN [ok |-> FALSE, cpi |-> 0, notices |-> <<>>]
        ELSE [ok |-> TRUE, cpi |-> c2,
              notices |-> (IF low THEN <<"CPI too low">> ELSE <<>>)
                          \o (IF high THEN <<"CPI too high">> ELSE <<>>)]

Msg(kind, msg, code) == [kind |-> kind, msg |-> msg, code |-> code]

\* The enumerated value an option argument selects, 0 when it is not accepted.
ParseMode(optarg) ==
    IF strcasecmp0(optarg, "legacy") THEN MODE_LEGACY
    ELSE IF strcasecmp0(optarg, "normal") THEN MODE_NORMAL
    ELSE 0

ParsePolling(optarg) ==
    IF optarg = "1000" THEN POLLING_1000_HZ
    ELSE IF optarg = "500" THEN POLLING_500_HZ
    ELSE IF optarg = "250" THEN POLLING_250_HZ
    ELSE IF optarg = "125" THEN POLLING_125_HZ
    ELSE 0

ParsePulsation(optarg) ==
    IF strcasecmp0(optarg, "steady") THEN PULSATION_STEADY
    ELSE IF strcasecmp0(optarg, "slow") THEN PULSATION_SLOW
    ELSE IF strcasecmp0(optarg, "medium") THEN PULSATION_MEDIUM
    ELSE IF strcasecmp0(optarg, "fast") THEN PULSATION_FAST
    ELSE 0

ParseIntensity(optarg) ==
    IF strcasecmp0(optarg, "off") THEN INTENSITY_OFF
    ELSE IF strcasecmp0(optarg, "low") THEN INTENSITY_LOW
    ELSE IF strcasecmp0(optarg, "medium") THEN INTENSITY_MEDIUM
    ELSE IF strcasecmp0(optarg, "high") THEN INTENSITY_HIGH
    ELSE 0

\* A command-line word [opt, arg, num]: an option getopt_long recognises, with
\* its argument in arg (compared as a whole) or in num (the CPI values, read
\* character by character); "?" for an option it rejects, "extra" for a
\* non-option word.
Word(opt, arg, num) == [opt |-> opt, arg |-> arg, num |-> num]

IsOption(tok) == tok.opt # "extra"

\* Index of the first option among the remaining words, 0 when there is none
\* (getopt_long permutes non-option words behind the options).
RECURSIVE FirstOption(_, _)
FirstOption(words, i) ==
    IF i > Len(words) THEN 0
    ELSE IF IsOption(words[i]) THEN i
    ELSE FirstOption(words, i + 1)

Without(s, i) == SubSeq(s, 1, i - 1) \o SubSeq(s, i + 1, Len(s))

\* exit (code)
Exit(code) ==
    /\ pc' = "exited"
    /\ exit_code' = code

\* parse_options, on entry: with no argument at all it prints the usage and fails.
ParseStart ==
    /\ pc = "start"
    /\ IF Len(argv) = 0
       THEN /\ Exit(EXIT_FAILURE)
            /\ stdout' = Append(stdout, "usage")
       ELSE /\ pc' = "getopt"
            /\ UNCHANGED <<exit_code, stdout>>
    /\ UNCHANGED <<parseVars, busVars, mainVars, calls, stderr>>

\* A failed validation: the message, then exit (EXIT_FAILURE).
Invalid(msg) ==
    /\ stderr' = Append(stderr, Msg("Error", msg, 0))
    /\ Exit(EXIT_FAILURE)
    /\ UNCHANGED <<options, new_config, stdout>>

\* An accepted enumerated option: the value stored, the flag set.
Accept(field, flag, value) ==
    /\ new_config' = [new_config EXCEPT ![field] = value]
    /\ options' = [options EXCEPT ![flag] = TRUE]
    /\ UNCHANGED <<pc, exit_code, stderr, stdout>>

\* History only: the flags of the settings that the device is sent after the
\* setting of option c.
FlagsAfter(c) ==
    CASE c = "mode" -> {"set_polling", "set_intensity", "set_pulsation", "set_cpi_off",
                        "set_cpi_on", "save_to_rom"}
      [] c = "polling" -> {"set_intensity", "set_pulsation", "set_cpi_off", "set_cpi_on",
                           "save_to_rom"}
      [] c = "intensity" -> {"set_pulsation", "set_cpi_off", "set_cpi_on", "save_to_rom"}
      [] c = "pulsation" -> {"set_cpi_off", "set_cpi_on", "save_to_rom"}
      [] c = "cpi-off" -> {"set_cpi_on", "save_to_rom"}
      [] c = "cpi-on" -> {"save_to_rom"}
      [] OTHER -> {}

GivenLate(opts, c) == \E flag \in FlagsAfter(c) : opts[flag]

\* One turn of the getopt_long loop: the switch on the option found.
ParseOption ==
    /\ pc = "getopt"
    /\ FirstOption(argv, 1) # 0
    /\ LET i == FirstOption(argv, 1)
           c == argv[i].opt
           optarg == argv[i].arg
           optnum == argv[i].num
       IN  /\ argv' = Without(argv, i)
           /\ out_of_order' = (out_of_order \/ GivenLate(options, c))
           /\ CASE c = "help" ->
                     /\ Exit(EXIT_SUCCESS)
                     /\ stdout' = Append(stdout, "usage")
                     /\ UNCHANGED <<options, new_config, stderr>>
                [] c = "version" ->
                     /\ Exit(EXIT_SUCCESS)
                     /\ stdout' = Append(stdout, "version")
                     /\ UNCHANGED <<options, new_config, stderr>>
                [] c = "show" ->
                     /\ options' = [options EXCEPT !.show_config = TRUE]
                     /\ UNCHANGED <<new_config, pc, exit_code, stderr, stdout>>
                [] c = "save" ->
                     /\ options' = [options EXCEPT !.save_to_rom = TRUE]
                     /\ UNCHANGED <<new_config, pc, exit_code, stderr, stdout>>
                [] c = "mode" ->
                     IF ParseMode(optarg) = 0 THEN Invalid("invalid mode")
                     ELSE Accept("mode", "set_mode", ParseMode(optarg))
                [] c = "polling" ->
                     IF ParsePolling(optarg) = 0 THEN Invalid("invalid polling frequency")
                     ELSE Accept("polling", "set_polling", ParsePolling(optarg))
                [] c \in {"cpi-on", "cpi-off"} ->
                     LET e == encode_cpi(optnum)
                         on == c = "cpi-on"
                     IN  IF ~e.ok THEN Invalid("invalid CPI value")
                         ELSE /\ new_config' = [new_config EXCEPT
                                     ![IF on THEN "cpi_on" ELSE "cpi_off"] = e.cpi]
                              /\ options' = [options EXCEPT
                                     ![IF on THEN "set_cpi_on" ELSE "set_cpi_off"] = TRUE]
                              /\ stderr' = stderr \o
                                     [k \in 1..Len(e.notices) |->
                                         Msg("Notice", e.notices[k], 0)]
                              /\ UNCHANGED <<pc, exit_code, stdout>>
                [] c = "pulsation" ->
                     IF ParsePulsation(optarg) = 0 THEN Invalid("invalid backlight pulsation")
                     ELSE Accept("pulsation", "set_pulsation", ParsePulsation(optarg))
                [] c = "intensity" ->
                     IF ParseIntensity(optarg) = 0 THEN Invalid("invalid backlight intensity")
                     ELSE Accept("intensity", "set_intensity", ParseIntensity(optarg))
                [] OTHER ->
                     /\ Exit(EXIT_FAILURE)
                     /\ UNCHANGED <<options, new_config, stderr, stdout>>
    /\ UNCHANGED <<busVars, mainVars, calls>>

\* getopt_long returned -1: extra words fail; otherwise parse_options returns
\* and main initialises result and status.
ParseEnd ==
    /\ pc = "getopt"
    /\ FirstOption(argv, 1) = 0
    /\ IF Len(argv) > 0
       THEN /\ stderr' = Append(stderr, Msg("Error", "extra parameters", 0))
            /\ Exit(EXIT_FAILURE)
            /\ UNCHANGED <<result, status>>
       ELSE /\ pc' = "init"
            /\ result' = 0
            /\ status' = 0
            /\ UNCHANGED <<exit_code, stderr>>
    /\ UNCHANGED <<parseVars, busVars, n_products, err, device, reattach_driver,
                   cursor, calls, stdout>>

\* ------------------------------------------------------------- discovery

Device(vendor, product, desc_ok) ==
    [idVendor |-> vendor, idProduct |-> product, desc_ok |-> desc_ok]

Call(op, arg, res) == [op |-> op, arg |-> arg, res |-> res]

\* find_device's scan: index of the first device from i on whose descriptor
\* can be read and carries the vendor and product id, 0 when there is none.
RECURSIVE FirstMatch(_, _, _, _)
FirstMatch(list, i, vendor, product) ==
    IF i > Len(list) THEN 0
    ELSE IF /\ list[i].desc_ok
            /\ list[i].idVendor = vendor
            /\ list[i].idProduct = product
         THEN i
         ELSE FirstMatch(list, i + 1, vendor, product)

\* find_device comparing the product id alone.
FindAnyVendor(list, vendor, product) ==
    IF \E i \in 1..Len(list) : list[i].desc_ok /\ list[i].idProduct = product
    THEN CHOOSE i \in 1..Len(list) :
            /\ list[i].desc_ok /\ list[i].idProduct = product
            /\ \A j \in 1..(i - 1) : ~(list[j].desc_ok /\ list[j].idProduct = product)
    ELSE 0

\* find_device's loop over the device list.
FindFirst(list, vendor, product) == FirstMatch(list, 1, vendor, product)

\* ERROR (label, ...) printing only while no error has been reported yet.
ERRORFirstOnly(label, msg, code) ==
    /\ stderr' = (IF status = 0 THEN Append(stderr, Msg("Error", msg, code)) ELSE stderr)
    /\ status' = 1
    /\ pc' = label

\* ERROR (label, ...) without "status = 1".
ERRORKeepsStatus(label, msg, code) ==
    /\ stderr' = Append(stderr, Msg("Error", msg, code))
    /\ status' = status
    /\ pc' = label

\* The ERROR macro: the message, status = 1, goto label.
ERROR(label, msg, code) ==
    /\ stderr' = Append(stderr, Msg("Error", msg, code))
    /\ status' = 1
    /\ pc' = label

\* find_device_list going on after a failed open.
LoopEndsNever(e) == FALSE

\* find_device_list: "if (err) break;"
LoopEnds(e) == e # 0

\* main, when find_device_list returned NULL with *error = e.
NoDevice(e) ==
    IF e # 0 THEN ERROR("error_1", "couldn't open device", e)
    ELSE ERROR("error_1", "no suitable device found", 0)

\* libusb_init
LibusbInit ==
    /\ pc = "init"
    /\ \E r \in {0} \cup LibusbErrors :
         /\ calls' = Append(calls, Call("init", <<>>, r))
         /\ result' = 0
         /\ IF r # 0
            THEN ERROR("error_0", "libusb initialisation failed", r)
            ELSE /\ pc' = "find"
                 /\ UNCHANGED <<status, stderr>>
    /\ n_products' = 1
    /\ err' = 0
    /\ UNCHANGED <<parseVars, busVars, device, reattach_driver, cursor, stdout, exit_code>>

\* One turn of find_device_list's loop: find_device for the next product id,
\* then the loop's exits and, when it returns NULL, main's report.
FindDevice ==
    /\ pc = "find"
    /\ n_products <= Len(products)
    /\ \E cnt_ok \in BOOLEAN, open \in {0} \cup LibusbErrors :
         LET found == IF cnt_ok
                      THEN FindFirst(attached, USB_VENDOR_STEELSERIES, products[n_products])
                      ELSE 0
             scan == Call("get_device_list", <<n_products>>, IF cnt_ok THEN Len(attached) ELSE -1)
             e == IF found # 0 /\ open # 0 THEN open ELSE err
             handle == IF found # 0 /\ open = 0 THEN found ELSE 0
             last == n_products = Len(products)
         IN  /\ found = 0 => open = 0
             /\ calls' = calls \o <<scan>>
                    \o (IF found # 0 THEN <<Call("open", <<found>>, open)>> ELSE <<>>)
             /\ err' = e
             /\ device' = handle
             /\ n_products' = n_products + 1
             /\ IF handle # 0
                THEN /\ pc' = "query"
                     /\ UNCHANGED <<result, status, stderr>>
                ELSE IF LoopEnds(e) \/ last
                THEN /\ result' = e
                     /\ NoDevice(e)
                ELSE /\ UNCHANGED <<pc, result, status, stderr>>
    /\ UNCHANGED <<parseVars, busVars, reattach_driver, cursor, stdout, exit_code>>

\* ------------------------------------------------------- session set-up

\* Where main's ERROR jumps, per failing step.
OnDetachErrorReattach == "error_3"
OnDetachError == "error_2"
OnClaimErrorGoesOn == "apply"
OnClaimErrorSkipReattach == "error_2"
OnClaimError == "error_3"
OnOperationErrorSkipRelease == "error_3"
OnOperationError == "error_4"
OnReleaseErrorSkipReattach == "error_2"
OnReleaseError == "error_3"
OnReattachError == "error_2"

\* The switch without its "case LIBUSB_ERROR_NOT_SUPPORTED:" label.
QueryProceedsOnZero(r) == r = 0

\* The driver query's answers main proceeds on without detaching.
QueryProceeds(r) == r \in {0, LIBUSB_ERROR_NOT_SUPPORTED}

\* libusb_kernel_driver_active and the switch on its result, up to the detach.
KernelDriverActive ==
    /\ pc = "query"
    /\ \E r \in {0, 1, LIBUSB_ERROR_NOT_SUPPORTED} \cup LibusbErrors :
         /\ calls' = Append(calls, Call("kernel_driver_active", <<device>>, r))
         /\ result' = r
         /\ IF QueryProceeds(r)
            THEN /\ pc' = "claim"
                 /\ reattach_driver' = FALSE
                 /\ UNCHANGED <<status, stderr>>
            ELSE IF r = 1
            THEN /\ pc' = "detach"
                 /\ reattach_driver' = TRUE
                 /\ UNCHANGED <<status, stderr>>
            ELSE /\ reattach_driver' = FALSE
                 /\ ERROR("error_2", "coudn't detect kernel driver presence", r)
    /\ UNCHANGED <<parseVars, busVars, n_products, err, device, cursor, stdout, exit_code>>

\* libusb_detach_kernel_driver
DetachKernelDriver ==
    /\ pc = "detach"
    /\ \E r \in {0} \cup LibusbErrors :
         /\ calls' = Append(calls, Call("detach_kernel_driver", <<device>>, r))
         /\ result' = r
         /\ IF r # 0
            THEN ERROR(OnDetachError, "couldn't detach kernel driver", r)
            ELSE /\ pc' = "claim"
                 /\ UNCHANGED <<status, stderr>>
    /\ UNCHANGED <<parseVars, busVars, n_products, err, device, reattach_driver,
                   cursor, stdout, exit_code>>

\* --------------------------------------------------------- the commands

\* unsigned char cmd[32] filled byte by byte, the rest left as the stack had it.
CmdUncleared(b0, b1, b2) ==
    [i \in 1..CmdLength |->
        IF i = 1 THEN b0 % 256 ELSE IF i = 2 THEN b1 % 256 ELSE IF i = 3 THEN b2 % 256 ELSE 200]

\* unsigned char cmd[32] = { b0, b1, b2 }: the rest is zero.
Cmd(b0, b1, b2) ==
    [i \in 1..CmdLength |->
        IF i = 1 THEN b0 % 256 ELSE IF i = 2 THEN b1 % 256 ELSE IF i = 3 THEN b2 % 256 ELSE 0]

sensei_set_mode(mode) == Cmd(2, 0, mode)
sensei_set_intensity(intensity) == Cmd(5, 1, intensity)
sensei_set_pulsation(pulsation) == Cmd(7, 1, pulsation)
sensei_set_cpi(cpi, led_status) == Cmd(3, IF led_status THEN 2 ELSE 1, cpi)
sensei_set_polling(polling) == Cmd(4, 0, polling)
sensei_save_to_rom == Cmd(9, 0, 0)

\* sensei_send_command taking every transfer for a success.
sensei_send_command_ignoring(r) == 0

\* sensei_send_command's return value for libusb_control_transfer's r.
sensei_send_command(r) == IF r < 0 THEN r ELSE 0

\* apply_options' statements after the show branch, in program order.
ApplyOrderCpiSwapped == <<"mode", "polling", "intensity", "pulsation", "cpi_on", "cpi_off", "save">>
ApplyOrder == <<"mode", "polling", "intensity", "pulsation", "cpi_off", "cpi_on", "save">>

\* apply_options testing set_mode where it should test set_polling.
RequestedPollingByMode(opts, f) ==
    CASE f = "mode" -> opts.set_mode
      [] f = "polling" -> opts.set_mode
      [] f = "intensity" -> opts.set_intensity
      [] f = "pulsation" -> opts.set_pulsation
      [] f = "cpi_off" -> opts.set_cpi_off
      [] f = "cpi_on" -> opts.set_cpi_on
      [] f = "save" -> opts.save_to_rom

\* Whether the statement's flag is set in opts.
Requested(opts, f) ==
    CASE f = "mode" -> opts.set_mode
      [] f = "polling" -> opts.set_polling
      [] f = "intensity" -> opts.set_intensity
      [] f = "pulsation" -> opts.set_pulsation
      [] f = "cpi_off" -> opts.set_cpi_off
      [] f = "cpi_on" -> opts.set_cpi_on
      [] f = "save" -> opts.save_to_rom

\* The command buffer of statement f.
CommandOf(f, cfg) ==
    CASE f = "mode" -> sensei_set_mode(cfg.mode)
      [] f = "polling" -> sensei_set_polling(cfg.polling)
      [] f = "intensity" -> sensei_set_intensity(cfg.intensity)
      [] f = "pulsation" -> sensei_set_pulsation(cfg.pulsation)
      [] f = "cpi_off" -> sensei_set_cpi(cfg.cpi_off, FALSE)
      [] f = "cpi_on" -> sensei_set_cpi(cfg.cpi_on, TRUE)
      [] f = "save" -> sensei_save_to_rom

\* sensei_set_cpi's assertion
CpiAsserted(f, cfg) ==
    CASE f = "cpi_off" -> cfg.cpi_off >= SENSEI_CPI_MIN /\ cfg.cpi_off <= SENSEI_CPI_MAX
      [] f = "cpi_on" -> cfg.cpi_on >= SENSEI_CPI_MIN /\ cfg.cpi_on <= SENSEI_CPI_MAX
      [] OTHER -> TRUE

\* Index of the first statement from i on whose flag is set, Len(ApplyOrder) + 1
\* when apply_options has nothing left to send.
RECURSIVE NextRequested(_, _)
NextRequested(opts, i) ==
    IF i > Len(ApplyOrder) THEN i
    ELSE IF Requested(opts, ApplyOrder[i]) THEN i
    ELSE NextRequested(opts, i + 1)

\* libusb_claim_interface
ClaimInterface ==
    /\ pc = "claim"
    /\ \E r \in {0} \cup LibusbErrors :
         /\ calls' = Append(calls, Call("claim_interface", <<device>>, r))
         /\ result' = r
         /\ IF r # 0
            THEN /\ ERROR(OnClaimError, "couldn't claim interface", r)
                 /\ UNCHANGED cursor
            ELSE /\ pc' = "apply"
                 /\ cursor' = NextRequested(options, 1)
                 /\ UNCHANGED <<status, stderr>>
    /\ UNCHANGED <<parseVars, busVars, n_products, err, device, reattach_driver,
                   stdout, exit_code>>

\* ------------------------------------------------------- the status read

\* Offsets of the settings in the status report.
OffIntensity == 102
OffPulsation == 103
OffCpiOff == 107
OffCpiOn == 108
OffPolling == 128

\* The report the mouse answers GET_REPORT with: its settings at their offsets.
StatusReport(dev) ==
    [i \in 0..(ReportLength - 1) |->
        CASE i = OffIntensity -> dev.intensity
          [] i = OffPulsation -> dev.pulsation
          [] i = OffCpiOff -> dev.cpi_off
          [] i = OffCpiOn -> dev.cpi_on
          [] i = OffPolling -> dev.polling
          [] OTHER -> 0]

\* What an uninitialised byte of data[] may hold (samples of 0..255).
GarbageBytes == {0, 200}

\* data[] after a transfer of r bytes: the first r bytes are the report's, the
\* rest is whatever the stack held (junk).
DataAfter(dev, r, junk) ==
    [i \in 0..(ReportLength - 1) |-> IF i < r THEN StatusReport(dev)[i] ELSE junk[i]]

\* sensei_load_config with the two CPI offsets exchanged.
sensei_load_config_swapped(data) ==
    [intensity |-> data[OffIntensity],
     pulsation |-> data[OffPulsation],
     cpi_off   |-> data[OffCpiOn],
     cpi_on    |-> data[OffCpiOff],
     polling   |-> data[OffPolling]]

\* sensei_load_config's assignments from data[].
sensei_load_config(data) ==
    [intensity |-> data[OffIntensity],
     pulsation |-> data[OffPulsation],
     cpi_off   |-> data[OffCpiOff],
     cpi_on    |-> data[OffCpiOn],
     polling   |-> data[OffPolling]]

IntensityName(v) ==
    CASE v = INTENSITY_OFF -> "off"
      [] v = INTENSITY_LOW -> "low"
      [] v = INTENSITY_MEDIUM -> "medium"
      [] v = INTENSITY_HIGH -> "high"
      [] OTHER -> "unknown"

PulsationName(v) ==
    CASE v = PULSATION_STEADY -> "steady"
      [] v = PULSATION_SLOW -> "slow"
      [] v = PULSATION_MEDIUM -> "medium"
      [] v = PULSATION_FAST -> "fast"
      [] OTHER -> "unknown"

\* The polling switch without its default label.
PollingNameNoDefault(v) ==
    CASE v = POLLING_1000_HZ -> "1000Hz"
      [] v = POLLING_500_HZ -> "500Hz"
      [] v = POLLING_250_HZ -> "250Hz"
      [] v = POLLING_125_HZ -> "125Hz"
      [] OTHER -> ""

PollingName(v) ==
    CASE v = POLLING_1000_HZ -> "1000Hz"
      [] v = POLLING_500_HZ -> "500Hz"
      [] v = POLLING_250_HZ -> "250Hz"
      [] v = POLLING_125_HZ -> "125Hz"
      [] OTHER -> "unknown"

Line(label, text, number) == [label |-> label, text |-> text, number |-> number]

\* sensei_display_config: the lines printed.
sensei_display_config(config) ==
    << Line("Backlight intensity", IntensityName(config.intensity), 0),
       Line("Backlight pulsation", PulsationName(config.pulsation), 0),
       Line("Speed in CPI (LED is off)", "", 90 * config.cpi_off),
       Line("Speed in CPI (LED is on)", "", 90 * config.cpi_on),
       Line("Polling frequency", PollingName(config.polling), 0) >>

\* The junk that matters: one byte per offset read.
ReadOffsets == {OffIntensity, OffPulsation, OffCpiOff, OffCpiOn, OffPolling}
NoJunk == [i \in 0..(ReportLength - 1) |-> 0]
Junks == {[i \in 0..(ReportLength - 1) |-> IF i \in ReadOffsets THEN j[i] ELSE 0] :
             j \in [ReadOffsets -> GarbageBytes]}

\* ------------------------------------------------------- apply_options

\* apply_options with show_config set: sensei_load_config, then the display.
ShowConfig ==
    /\ pc = "apply"
    /\ options.show_config
    /\ \E r \in {ReportLength, 0} \cup LibusbErrors, junk \in Junks :
         /\ r = ReportLength \/ r < 0 => junk = NoJunk
         /\ calls' = Append(calls, Call("get_report", <<>>, r))
         /\ IF r < 0
            THEN /\ result' = r
                 /\ ERROR(OnOperationError, "operation failed", r)
                 /\ UNCHANGED stdout
            ELSE /\ result' = 0
                 /\ stdout' = stdout \o
                        sensei_display_config(sensei_load_config(DataAfter(report, r, junk)))
                 /\ pc' = "error_4"
                 /\ UNCHANGED <<status, stderr>>
    /\ UNCHANGED <<parseVars, busVars, n_products, err, device, reattach_driver,
                   cursor, exit_code>>

\* apply_options whose show branch does not keep the write sequence from running.
ApplyWriteAlsoOnShow ==
    /\ pc = "apply"
    /\ cursor <= Len(ApplyOrder)
    /\ LET f == ApplyOrder[cursor]
       IN  IF ~CpiAsserted(f, new_config)
           THEN /\ pc' = "aborted"
                /\ exit_code' = 134
                /\ UNCHANGED <<calls, result, status, stderr, cursor>>
           ELSE \E r \in {CmdLength} \cup LibusbErrors :
                  /\ calls' = Append(calls, Call("set_report", CommandOf(f, new_config), r))
                  /\ UNCHANGED exit_code
                  /\ IF sensei_send_command(r) # 0
                     THEN /\ result' = sensei_send_command(r)
                          /\ ERROR(OnOperationError, "operation failed", sensei_send_command(r))
                          /\ UNCHANGED cursor
                     ELSE /\ cursor' = NextRequested(options, cursor + 1)
                          /\ UNCHANGED <<pc, result, status, stderr>>
    /\ UNCHANGED <<parseVars, busVars, n_products, err, device, reattach_driver, stdout>>

\* apply_options, one requested statement of the write sequence: the command is
\* sent, and a failure returns at once.
ApplyWrite ==
    /\ pc = "apply"
    /\ ~options.show_config
    /\ cursor <= Len(ApplyOrder)
    /\ LET f == ApplyOrder[cursor]
       IN  IF ~CpiAsserted(f, new_config)
           THEN /\ pc' = "aborted"
                /\ exit_code' = 134
                /\ UNCHANGED <<calls, result, status, stderr, cursor>>
           ELSE \E r \in {CmdLength} \cup LibusbErrors :
                  /\ calls' = Append(calls, Call("set_report", CommandOf(f, new_config), r))
                  /\ UNCHANGED exit_code
                  /\ IF sensei_send_command(r) # 0
                     THEN /\ result' = sensei_send_command(r)
                          /\ ERROR(OnOperationError, "operation failed", sensei_send_command(r))
                          /\ UNCHANGED cursor
                     ELSE /\ cursor' = NextRequested(options, cursor + 1)
                          /\ UNCHANGED <<pc, result, status, stderr>>
    /\ UNCHANGED <<parseVars, busVars, n_products, err, device, reattach_driver, stdout>>

\* apply_options' "return 0" after the write sequence.
ApplyReturn ==
    /\ pc = "apply"
    /\ ~options.show_config
    /\ cursor > Len(ApplyOrder)
    /\ result' = 0
    /\ pc' = "error_4"
    /\ UNCHANGED <<parseVars, busVars, n_products, err, device, status, reattach_driver,
                   cursor, calls, stderr, stdout, exit_code>>

\* ------------------------------------------------------------ teardown

\* error_4: libusb_release_interface
ReleaseInterface ==
    /\ pc = "error_4"
    /\ \E r \in {0} \cup LibusbErrors :
         /\ calls' = Append(calls, Call("release_interface", <<device>>, r))
         /\ result' = r
         /\ IF r # 0
            THEN ERROR(OnReleaseError, "couldn't release interface", r)
            ELSE /\ pc' = "error_3"
                 /\ UNCHANGED <<status, stderr>>
    /\ UNCHANGED <<parseVars, busVars, n_products, err, device, reattach_driver,
                   cursor, stdout, exit_code>>

\* error_3: libusb_attach_kernel_driver, when reattach_driver is set
AttachKernelDriver ==
    /\ pc = "error_3"
    /\ IF reattach_driver
       THEN \E r \in {0} \cup LibusbErrors :
              /\ calls' = Append(calls, Call("attach_kernel_driver", <<device>>, r))
              /\ result' = r
              /\ IF r # 0
                 THEN ERROR(OnReattachError, "couldn't reattach kernel driver", r)
                 ELSE /\ pc' = "error_2"
                      /\ UNCHANGED <<status, stderr>>
       ELSE /\ pc' = "error_2"
            /\ UNCHANGED <<calls, result, status, stderr>>
    /\ UNCHANGED <<parseVars, busVars, n_products, err, device, reattach_driver,
                   cursor, stdout, exit_code>>

\* error_2: libusb_close
Close ==
    /\ pc = "error_2"
    /\ calls' = Append(calls, Call("close", <<device>>, 0))
    /\ pc' = "error_1"
    /\ UNCHANGED <<parseVars, busVars, mainVars, stderr, stdout, exit_code>>

\* error_1: libusb_exit
LibusbExit ==
    /\ pc = "error_1"
    /\ calls' = Append(calls, Call("exit", <<>>, 0))
    /\ pc' = "error_0"
    /\ UNCHANGED <<parseVars, busVars, mainVars, stderr, stdout, exit_code>>

\* error_0: return status
Return ==
    /\ pc = "error_0"
    /\ exit_code' = status
    /\ pc' = "returned"
    /\ UNCHANGED <<parseVars, busVars, mainVars, calls, stderr, stdout>>

\* ------------------------------------------------------ specifications

Raw == Device(USB_VENDOR_STEELSERIES, USB_PRODUCT_STEELSERIES_SENSEI_RAW, TRUE)
Bo2 == Device(USB_VENDOR_STEELSERIES, USB_PRODUCT_STEELSERIES_COD_BO2, TRUE)
\* Another make's device that happens to carry the Sensei Raw's product id.
Foreign == Device(USB_VENDOR_STEELSERIES + 1, USB_PRODUCT_STEELSERIES_SENSEI_RAW, TRUE)
\* A Sensei Raw whose descriptor cannot be read.
Mute == Device(USB_VENDOR_STEELSERIES, USB_PRODUCT_STEELSERIES_SENSEI_RAW, FALSE)

DeviceKinds == {Raw, Bo2, Foreign, Mute}

\* The settings of the mouse used throughout.
SampleSettings == [intensity |-> 3, pulsation |-> 2, cpi_off |-> 5, cpi_on |-> 10, polling |-> 1]

\* The command-line words of the lifecycle specification: one spelling per option.
CoreWords ==
    { Word("show", "", <<>>), Word("save", "", <<>>), Word("help", "", <<>>),
      Word("mode", "normal", <<>>), Word("mode", "compat", <<>>),
      Word("polling", "500", <<>>),
      Word("intensity", "low", <<>>), Word("pulsation", "Slow", <<>>),
      Word("cpi-off", "", <<"9", "0", "0">>), Word("cpi-on", "", <<"1", "8", "0", "0">>) }

\* The command lines of the discovery specification.
FewCommandLines ==
    { <<>>, <<Word("show", "", <<>>)>>, <<Word("version", "", <<>>)>>,
      <<Word("mode", "legacy", <<>>), Word("save", "", <<>>)>>,
      <<Word("cpi-on", "", <<"4", "5">>), Word("extra", "", <<>>)>>,
      <<Word("?", "", <<>>)>> }

\* The buses of the lifecycle specification.
FewBuses == { <<>>, <<Raw>>, <<Foreign, Bo2>> }

\* main's locals and the process's streams before parse_options runs.
InitMain ==
    /\ options = noOptions
    /\ new_config = noConfig
    /\ pc = "start"
    /\ n_products = 1
    /\ err = 0
    /\ device = 0
    /\ result = 0
    /\ status = 0
    /\ reattach_driver = FALSE
    /\ cursor = 1
    /\ calls = <<>>
    /\ stderr = <<>>
    /\ stdout = <<>>
    /\ exit_code = -1
    /\ out_of_order = FALSE

InitProgram ==
    /\ report = SampleSettings
    /\ InitMain

\* Any command line of up to MaxArgs words, on one of a few buses.
Init ==
    /\ argv \in SeqsUpTo(CoreWords, MaxArgs)
    /\ attached \in FewBuses
    /\ InitProgram

\* A few command lines, on any bus of up to MaxDevices devices.
InitDiscovery ==
    /\ argv \in FewCommandLines
    /\ attached \in SeqsUpTo(DeviceKinds, MaxDevices)
    /\ InitProgram

\* ---- the codec specification: one setting per command line, every value

\* printf ("%d", n) for n >= 0: the decimal digits, most significant first.
DigitChar(d) ==
    CASE d = 0 -> "0" [] d = 1 -> "1" [] d = 2 -> "2" [] d = 3 -> "3" [] d = 4 -> "4"
      [] d = 5 -> "5" [] d = 6 -> "6" [] d = 7 -> "7" [] d = 8 -> "8" [] d = 9 -> "9"

RECURSIVE FormatDecimal(_)
FormatDecimal(n) ==
    IF n < 10 THEN <<DigitChar(n)>>
    ELSE Append(FormatDecimal(n \div 10), DigitChar(n % 10))

\* The CPI arguments: every string of up to MaxDigits of these digits, ...
CpiDigits == {"0", "4", "5", "6", "7", "9"}
DigitStrings == UNION {[1..k -> CpiDigits] : k \in 1..MaxDigits}

\* ... the strings strtol reads specially or not at all, and a number beyond
\* LONG_MAX, ...
OddNumerals ==
    { <<>>, <<"x">>, <<"9", "0", "x">>, <<" ", "9", "0">>, <<"+", "9", "0">>,
      <<"-", "0">>, <<"-", "9", "0">>, <<"9", "0", " ">>,
      <<"9", "9", "9", "9", "9", "9", "9", "9", "9", "9", "9">> }

\* ... and what sensei_display_config prints as the speed of each step 1..63.
DisplayedCpi(step) ==
    sensei_display_config([SampleSettings EXCEPT !.cpi_on = step])[4].number
DisplayedNumerals ==
    {FormatDecimal(DisplayedCpi(step)) : step \in SENSEI_CPI_MIN..SENSEI_CPI_MAX}

CpiLines ==
    {<<Word(o, "", str)>> : o \in {"cpi-on", "cpi-off"},
                            str \in DigitStrings \cup OddNumerals \cup DisplayedNumerals}

\* Every spelling the enumerated options compare their argument with, in some
\* letter cases, and one argument each that none of them accepts.
EnumLines ==
    {<<Word("mode", a, <<>>)>> : a \in {"legacy", "normal", "Legacy", "NORMAL", "compat"}}
    \cup {<<Word("polling", a, <<>>)>> : a \in {"1000", "500", "250", "125", "100"}}
    \cup {<<Word("pulsation", a, <<>>)>> :
            a \in {"steady", "slow", "medium", "fast", "Slow", "blink"}}
    \cup {<<Word("intensity", a, <<>>)>> :
            a \in {"off", "low", "medium", "high", "HIGH", "max"}}

\* The values of an unsigned char.
Bytes == 0..255

\* The mouse's settings: the sample with any one byte of the five changed.
Reports ==
    {[SampleSettings EXCEPT ![f] = b] :
        f \in {"intensity", "pulsation", "cpi_off", "cpi_on", "polling"}, b \in Bytes}

\* One setting written to a Sensei Raw, or the settings of any mouse shown.
InitCodec ==
    /\ attached = <<Raw>>
    /\ \/ argv \in CpiLines \cup EnumLines /\ report = SampleSettings
       \/ argv = <<Word("show", "", <<>>)>> /\ report \in Reports
    /\ InitMain

\* ---- the front end's specification: the command lines sensei-raw-ctl-gui spawns

pulsation_list == <<"steady", "slow", "medium", "fast">>
intensity_list == <<"off", "low", "medium", "high">>

\* on_change_value: the values the polling scale snaps to.
steps == <<125, 250, 500, 1000>>

\* g_strdup_printf ("%.0f", v) for the values of the polling scale.
PrintPolling(v) ==
    CASE v = 125 -> "125" [] v = 250 -> "250" [] v = 500 -> "500" [] v = 1000 -> "1000"

\* The values of a CPI scale (samples): on_change_value_steps keeps the scale
\* on its steps, and load_configuration sets it to a displayed speed.
CpiScaleValues == {DisplayedCpi(step) : step \in {SENSEI_CPI_MIN, 10, SENSEI_CPI_MAX}}

\* load_configuration's argv
load_configuration == {<<Word("show", "", <<>>)>>}

\* save_configuration's argv, the scale values printed with "%.0f"
save_configuration ==
    {<<Word("polling", PrintPolling(polling), <<>>), Word("cpi-on", "", FormatDecimal(cpi_on)),
       Word("cpi-off", "", FormatDecimal(cpi_off)),
       Word("pulsation", pulsation_list[pulsation], <<>>),
       Word("intensity", intensity_list[intensity], <<>>), Word("save", "", <<>>)>> :
        polling \in Range(steps),
        cpi_on \in CpiScaleValues, cpi_off \in CpiScaleValues,
        pulsation \in 1..Len(pulsation_list), intensity \in 1..Len(intensity_list)}

\* on_set_mode_normal's and on_set_mode_legacy's argv
on_set_mode_normal == {<<Word("mode", "normal", <<>>)>>}
on_set_mode_legacy == {<<Word("mode", "compat", <<>>)>>}

\* Any command line the front end spawns, with a Sensei Raw attached.
InitGui ==
    /\ argv \in load_configuration \cup save_configuration
                \cup on_set_mode_normal \cup on_set_mode_legacy
    /\ attached = <<Raw>>
    /\ InitProgram

Next ==
    \/ ParseStart
    \/ ParseOption
    \/ ParseEnd
    \/ LibusbInit
    \/ FindDevice
    \/ KernelDriverActive
    \/ DetachKernelDriver
    \/ ClaimInterface
    \/ ShowConfig
    \/ ApplyWrite
    \/ ApplyReturn
    \/ ReleaseInterface
    \/ AttachKernelDriver
    \/ Close
    \/ LibusbExit
    \/ Return

Spec == Init /\ [][Next]_vars

SpecDiscovery == InitDiscovery /\ [][Next]_vars

SpecCodec == InitCodec /\ [][Next]_vars

SpecGui == InitGui /\ [][Next]_vars

\* ------------------------------------------------- reading the call trace

IsWrite(c) == c.op = "set_report"
IsTransfer(c) == c.op \in {"set_report", "get_report"}
IsTeardown(c) == c.op \in {"release_interface", "attach_kernel_driver", "close"}

Writes == SelectSeq(calls, IsWrite)
OpsOf(trace) == [i \in 1..Len(trace) |-> trace[i].op]
At(op) == {i \in 1..Len(calls) : calls[i].op = op}
Succeeded(op) == \E i \in At(op) : calls[i].res = 0
FailedAt(op) == {i \in At(op) : calls[i].res # 0}
TransfersAt == {i \in 1..Len(calls) : IsTransfer(calls[i])}
FailedTransfersAt == {i \in TransfersAt : calls[i].res < 0}
IsPrefix(s, t) == Len(s) <= Len(t) /\ SubSeq(t, 1, Len(s)) = s

\* The setting a command buffer writes, read off its bytes 0 and 1.
WrittenField(data) ==
    CASE data[1] = 2 /\ data[2] = 0 -> "mode"
      [] data[1] = 4 /\ data[2] = 0 -> "polling"
      [] data[1] = 5 /\ data[2] = 1 -> "intensity"
      [] data[1] = 7 /\ data[2] = 1 -> "pulsation"
      [] data[1] = 3 /\ data[2] = 1 -> "cpi_off"
      [] data[1] = 3 /\ data[2] = 2 -> "cpi_on"
      [] data[1] = 9 /\ data[2] = 0 -> "save"
      [] OTHER -> "none"

WrittenFields == [i \in 1..Len(Writes) |-> WrittenField(Writes[i].arg)]

\* The fixed order of the write sequence, as the specification states it.
FixedRank(f) ==
    CASE f = "mode" -> 1 [] f = "polling" -> 2 [] f = "intensity" -> 3
      [] f = "pulsation" -> 4 [] f = "cpi_off" -> 5 [] f = "cpi_on" -> 6
      [] f = "save" -> 7 [] OTHER -> 0

FixedOrder == <<"mode", "polling", "intensity", "pulsation", "cpi_off", "cpi_on", "save">>

ErrorLines == LET IsError(m) == m.kind = "Error" IN SelectSeq(stderr, IsError)

\* ------------------------------------------------------------- claims

\* C1: the write commands apply_options emits are, in every state, a
\* subsequence of mode, polling, intensity, pulsation, CPI-off, CPI-on,
\* save-to-ROM (strictly increasing in that order, so each at most once),
\* whatever the order of the options on the command line; when no write fails
\* they are exactly the requested ones in that order (a request of mode,
\* polling and cpi_on emits exactly mode, polling, cpi_on).
C1_WriteOrder ==
    /\ \A i \in 1..Len(WrittenFields) : FixedRank(WrittenFields[i]) >= 1
    /\ \A i, j \in 1..Len(WrittenFields) :
         i < j => FixedRank(WrittenFields[i]) < FixedRank(WrittenFields[j])
    /\ ( /\ pc = "returned"
         /\ FailedTransfersAt = {}
         /\ Succeeded("claim_interface")
         /\ ~options.show_config )
       => WrittenFields = LET Asked(f) == Requested(options, f)
                          IN  SelectSeq(FixedOrder, Asked)

\* C1's case: options given out of the fixed order, written as mode, polling, cpi_on.
C1_Witness ==
    /\ out_of_order
    /\ pc = "returned"
    /\ options = [noOptions EXCEPT !.set_mode = TRUE, !.set_polling = TRUE,
                                   !.set_cpi_on = TRUE]
    /\ new_config.cpi_on = 20
    /\ WrittenFields = <<"mode", "polling", "cpi_on">>

\* The teardown calls of an invocation whose claim succeeded.
ExpectedTeardown ==
    IF Succeeded("detach_kernel_driver")
    THEN <<"release_interface", "attach_kernel_driver", "close">>
    ELSE <<"release_interface", "close">>

\* C2: once the interface is claimed, the teardown calls made so far are a
\* prefix of release, reattach (only if a kernel driver was detached), close,
\* the release follows every transfer, and when main returns all of them have
\* been made, whichever of the operation, the release and the reattach failed.
C2_TeardownOrder ==
    Succeeded("claim_interface") =>
        /\ IsPrefix(OpsOf(SelectSeq(calls, IsTeardown)), ExpectedTeardown)
        /\ \A i \in At("release_interface"), j \in TransfersAt \cup At("claim_interface") : j < i
        /\ pc = "returned" => OpsOf(SelectSeq(calls, IsTeardown)) = ExpectedTeardown

\* C2's case: the operation, the release and the reattach all failed, and the
\* handle was closed all the same.
C2_Witness ==
    /\ pc = "returned"
    /\ FailedTransfersAt # {}
    /\ FailedAt("release_interface") # {}
    /\ FailedAt("attach_kernel_driver") # {}
    /\ At("close") # {}

\* C3: in an invocation whose claim succeeded, release is called exactly once,
\* and reattach exactly once if a kernel driver was detached and never
\* otherwise, whether apply_options succeeded or failed.
C3_TeardownCounts ==
    /\ Cardinality(At("release_interface")) <= 1
    /\ Cardinality(At("attach_kernel_driver")) <= 1
    /\ (pc = "returned" /\ Succeeded("claim_interface")) =>
         /\ Cardinality(At("release_interface")) = 1
         /\ Cardinality(At("attach_kernel_driver")) =
                (IF Succeeded("detach_kernel_driver") THEN 1 ELSE 0)

\* C3's case: a detached driver, a failed operation, one release, one reattach.
C3_Witness ==
    /\ pc = "returned"
    /\ Succeeded("detach_kernel_driver")
    /\ FailedTransfersAt # {}
    /\ Cardinality(At("release_interface")) = 1
    /\ Cardinality(At("attach_kernel_driver")) = 1

\* Whether a call counts as a failed step of main: the driver query fails only on
\* an answer other than 0, 1 and "not supported", a transfer on a negative
\* result, a device enumeration never by itself.
StepFailed(c) ==
    CASE c.op = "get_device_list" -> FALSE
      [] c.op = "kernel_driver_active" -> c.res \notin {0, 1, LIBUSB_ERROR_NOT_SUPPORTED}
      [] IsTransfer(c) -> c.res < 0
      [] OTHER -> c.res # 0

\* The diagnostic main prints for a failed step.
FailureText(op) ==
    CASE op = "init" -> "libusb initialisation failed"
      [] op = "open" -> "couldn't open device"
      [] op = "kernel_driver_active" -> "coudn't detect kernel driver presence"
      [] op = "detach_kernel_driver" -> "couldn't detach kernel driver"
      [] op = "claim_interface" -> "couldn't claim interface"
      [] op \in {"set_report", "get_report"} -> "operation failed"
      [] op = "release_interface" -> "couldn't release interface"
      [] op = "attach_kernel_driver" -> "couldn't reattach kernel driver"
      [] OTHER -> "none"

FailedSteps == SelectSeq(calls, StepFailed)

\* Discovery is over and has opened nothing, without an open having failed.
NothingSuitable ==
    /\ pc \in {"error_1", "error_0", "returned"}
    /\ Succeeded("init")
    /\ At("open") = {}

C5_AbortAtFirstFailingWrite ==
    \A i \in FailedTransfersAt :
        /\ \A j \in TransfersAt : j <= i
        /\ i < Len(calls) => calls[i + 1].op = "release_interface"
        /\ Msg("Error", "operation failed", calls[i].res) \in Range(ErrorLines)
        /\ i = Len(calls) => result = calls[i].res

\* C5's case: the first of several requested writes failed and nothing was
\* written after it.
C5_Witness ==
    /\ pc = "returned"
    /\ options.set_mode /\ options.set_polling /\ options.save_to_rom
    /\ WrittenFields = <<"mode">>
    /\ Writes[1].res < 0

\* Some step of main failed: a call did, or discovery opened no device.
AnyStepFailed ==
    \/ FailedSteps # <<>>
    \/ Succeeded("init") /\ ~Succeeded("open")

\* C6: when main returns, the exit status is 0 exactly when no step failed
\* (initialisation, discovery, driver query, detach, claim, the operation,
\* release, reattach; a query answered "not supported" is no failure); a
\* release failing after a fully successful write sequence gives a non-zero
\* status and the release failure as the first reported reason.
C6_ExitStatus ==
    pc = "returned" =>
        /\ exit_code = 0 <=> ~AnyStepFailed
        /\ exit_code \in {0, 1}
        /\ \A i \in FailedAt("release_interface") :
              FailedTransfersAt = {} =>
                 /\ exit_code # 0
                 /\ ErrorLines # <<>>
                 /\ ErrorLines[1] = Msg("Error", "couldn't release interface", calls[i].res)

\* C6's case: every requested write succeeded and the release failed.
C6_Witness ==
    /\ pc = "returned"
    /\ Len(Writes) >= 2
    /\ FailedTransfersAt = {}
    /\ FailedAt("release_interface") # {}
    /\ exit_code = 1

\* C7: after a failed detach the only calls made are libusb_close and
\* libusb_exit: no claim, no control transfer, no release and no reattach is
\* attempted, and the only failure reported is the detach failure.
C7_DetachFailureShortCircuits ==
    \A i \in FailedAt("detach_kernel_driver") :
        /\ \A j \in (i + 1)..Len(calls) : calls[j].op \in {"close", "exit"}
        /\ At("claim_interface") = {}
        /\ TransfersAt = {}
        /\ ErrorLines = <<Msg("Error", "couldn't detach kernel driver", calls[i].res)>>
        /\ pc = "returned" => At("close") # {} /\ exit_code = 1

\* C7's case: the detach failed and main has returned.
C7_Witness ==
    /\ pc = "returned"
    /\ FailedAt("detach_kernel_driver") # {}
    /\ calls[Len(calls) - 1].op = "close"

\* The accepted product ids in priority order, as the specification names
\* them: the primary SKU, then the variant.
AcceptedOrder == <<USB_PRODUCT_STEELSERIES_SENSEI_RAW, USB_PRODUCT_STEELSERIES_COD_BO2>>

HasAcceptedId(d) ==
    d.idVendor = USB_VENDOR_STEELSERIES /\ d.idProduct \in Range(AcceptedOrder)

\* The devices enumeration shows with vendor id SteelSeries and product id p.
Candidates(p) ==
    {j \in 1..Len(attached) :
        /\ attached[j].desc_ok
        /\ attached[j].idVendor = USB_VENDOR_STEELSERIES
        /\ attached[j].idProduct = p}

Min(S) == CHOOSE x \in S : \A y \in S : x <= y

FailedScansAt == {j \in At("get_device_list") : calls[j].res < 0}

\* C8: on a bus with no device carrying the SteelSeries vendor id together
\* with an accepted product id, no device is ever opened, discovery ends in
\* "no suitable device found" and never in "couldn't open device", and main
\* returns a failure.
C8_NoSuitableDevice ==
    (\A i \in 1..Len(attached) : ~HasAcceptedId(attached[i])) =>
        /\ At("open") = {}
        /\ device = 0
        /\ \A i \in 1..Len(stderr) : stderr[i].msg # "couldn't open device"
        /\ pc \in {"start", "getopt", "init", "find", "error_1", "error_0", "returned", "exited"}
        /\ (pc \in {"error_1", "error_0", "returned"} /\ Succeeded("init"))
              => ErrorLines = <<Msg("Error", "no suitable device found", 0)>>
        /\ (pc = "returned") => exit_code = 1

\* C8's case: devices are attached, none of them suitable, both product ids
\* were looked for and main has returned.
C8_Witness ==
    /\ pc = "returned"
    /\ Len(attached) >= 2
    /\ \A i \in 1..Len(attached) : ~HasAcceptedId(attached[i])
    /\ Cardinality(At("get_device_list")) = 2
    /\ FailedScansAt = {}
    /\ ErrorLines = <<Msg("Error", "no suitable device found", 0)>>

C10_SingleOpen ==
    /\ Cardinality(At("open")) <= 1
    /\ \A k \in FailedAt("open") :
         /\ device = 0
         /\ \A j \in (k + 1)..Len(calls) : calls[j].op = "exit"
         /\ ErrorLines = <<Msg("Error", "couldn't open device", calls[k].res)>>
         /\ pc \in {"error_1", "error_0", "returned"}

\* C10's case: the open of the first primary device failed although a second
\* primary device and a variant were attached.
C10_Witness ==
    /\ pc = "returned"
    /\ attached = <<Raw, Raw, Bo2>>
    /\ FailedAt("open") # {}
    /\ Cardinality(At("open")) = 1
    /\ exit_code = 1

\* The request flag of a setting, as struct options names it.
AskedFor(f) ==
    CASE f = "mode" -> options.set_mode
      [] f = "polling" -> options.set_polling
      [] f = "intensity" -> options.set_intensity
      [] f = "pulsation" -> options.set_pulsation
      [] f = "cpi_off" -> options.set_cpi_off
      [] f = "cpi_on" -> options.set_cpi_on
      [] f = "save" -> options.save_to_rom
      [] OTHER -> FALSE

\* C11: every write command sent carries the opcode and sub-selector of a
\* setting whose flag is set in the options request, the save-to-ROM command
\* is sent only if save was requested, and nothing else is ever written: a
\* setting that was not requested is never written to the device.
C11_OnlyRequestedWritten ==
    \A i \in 1..Len(WrittenFields) : AskedFor(WrittenFields[i])

\* C11's case: intensity and save were requested, both were written, and none
\* of the five other commands was.
C11_Witness ==
    /\ pc = "returned"
    /\ options = [noOptions EXCEPT !.set_intensity = TRUE, !.save_to_rom = TRUE]
    /\ WrittenFields = <<"intensity", "save">>
    /\ exit_code = 0

\* C12: a driver query answered "not supported" is treated like one answered
\* "not bound": no detach and no reattach is ever called, the query is not
\* reported as an error, and the next call is the claim; any other query error
\* is reported and is fatal before the claim (only close and exit follow).
C12_QueryNotSupported ==
    \A i \in At("kernel_driver_active") :
        /\ calls[i].res \in {0, LIBUSB_ERROR_NOT_SUPPORTED} =>
              /\ At("detach_kernel_driver") = {}
              /\ At("attach_kernel_driver") = {}
              /\ ~reattach_driver
              /\ \A k \in 1..Len(stderr) :
                    stderr[k].msg # "coudn't detect kernel driver presence"
              /\ i < Len(calls) => calls[i + 1].op = "claim_interface"
              /\ pc = "returned" => At("claim_interface") # {}
        /\ calls[i].res \notin {0, 1, LIBUSB_ERROR_NOT_SUPPORTED} =>
              /\ At("claim_interface") = {}
              /\ At("detach_kernel_driver") = {}
              /\ TransfersAt = {}
              /\ \A j \in (i + 1)..Len(calls) : calls[j].op \in {"close", "exit"}
              /\ ErrorLines = <<Msg("Error", "coudn't detect kernel driver presence",
                                    calls[i].res)>>
              /\ pc = "returned" => exit_code = 1

\* C12's case: the query was answered "not supported", the interface was
\* claimed, the writes were sent and main returned success without a reattach.
C12_Witness ==
    /\ pc = "returned"
    /\ \E i \in At("kernel_driver_active") : calls[i].res = LIBUSB_ERROR_NOT_SUPPORTED
    /\ Succeeded("claim_interface")
    /\ Len(Writes) >= 1
    /\ At("attach_kernel_driver") = {}
    /\ exit_code = 0

\* ---- reading a CPI argument as the number it writes

IsNumeral(str) == Len(str) >= 1 /\ \A i \in 1..Len(str) : IsDigit(str[i])

\* The numeral without its leading zeros.
RECURSIVE Significant(_)
Significant(str) ==
    IF Len(str) >= 1 /\ str[1] = "0" THEN Significant(Tail(str)) ELSE str

RECURSIVE NumeralValue(_)
NumeralValue(str) ==
    IF str = <<>> THEN 0
    ELSE 10 * NumeralValue(SubSeq(str, 1, Len(str) - 1)) + DigitVal(str[Len(str)])

Clamp(x, lo, hi) == IF x < lo THEN lo ELSE IF x > hi THEN hi ELSE x

\* floor (c / 90) of the numeral's value c, as far as the clamp can tell: a
\* numeral of five significant digits or more is worth at least 10000, whose
\* quotient is already beyond every step.
Quotient(str) ==
    IF Len(Significant(str)) > 4 THEN 10000 \div 90
    ELSE NumeralValue(Significant(str)) \div 90

\* The getopt_long turn about to run reads option o with a numeral as argument.
ReadsNumeral(o) ==
    /\ pc = "getopt"
    /\ FirstOption(argv, 1) # 0
    /\ argv[FirstOption(argv, 1)].opt = o
    /\ IsNumeral(argv[FirstOption(argv, 1)].num)

NextNumeral == argv[FirstOption(argv, 1)].num

CpiField(o) == IF o = "cpi-on" THEN "cpi_on" ELSE "cpi_off"

\* C13: for every CPI argument that is a decimal numeral of value c, the step
\* encode_cpi produces (and parse_options stores) is floor (c / 90) raised to
\* 1 if below 1 and lowered to 63 if above 63.
C13_EncodeClamps ==
    [][\A o \in {"cpi-on", "cpi-off"} :
          ReadsNumeral(o) =>
              new_config'[CpiField(o)] = Clamp(Quotient(NextNumeral), 1, 63)]_vars

\* C13's case: a CPI that is no multiple of 90 was truncated to step 62 and
\* written.
C13_Witness ==
    /\ pc = "returned"
    /\ options.set_cpi_off
    /\ new_config.cpi_off = 62
    /\ Len(Writes) = 1
    /\ Writes[1].arg[3] = 62

\* The notice encode_cpi owes the user for a numeral.
OwedNotices(str) ==
    IF Quotient(str) < 1 THEN <<Msg("Notice", "CPI too low", 0)>>
    ELSE IF Quotient(str) > 63 THEN <<Msg("Notice", "CPI too high", 0)>>
    ELSE <<>>

\* C14: encode_cpi prints a notice exactly when floor (c / 90) is outside
\* [1, 63], one notice, "too low" or "too high" (none for 900, one each for
\* 45 and 6000); the notice is no error: parsing goes on, the clamped step is
\* the one written, and an invocation in which no step fails returns success
\* having printed nothing but notices.
C14_NoticeIffClamped ==
    /\ [][\A o \in {"cpi-on", "cpi-off"} :
             ReadsNumeral(o) =>
                 /\ stderr' = stderr \o OwedNotices(NextNumeral)
                 /\ pc' = "getopt"
                 /\ exit_code' = exit_code]_vars
    /\ [](\A i \in 1..Len(Writes) :
             /\ WrittenField(Writes[i].arg) = "cpi_on" => Writes[i].arg[3] = new_config.cpi_on
             /\ WrittenField(Writes[i].arg) = "cpi_off" => Writes[i].arg[3] = new_config.cpi_off)
    /\ []((pc = "returned" /\ ~AnyStepFailed) =>
             /\ exit_code = 0
             /\ ErrorLines = <<>>
             /\ options.set_cpi_on => "cpi_on" \in Range(WrittenFields)
             /\ options.set_cpi_off => "cpi_off" \in Range(WrittenFields))

\* C14's case: a CPI below one step was raised to step 1 with one notice,
\* step 1 was written, and the invocation succeeded.
C14_Witness ==
    /\ pc = "returned"
    /\ stderr = <<Msg("Notice", "CPI too low", 0)>>
    /\ Len(Writes) = 1
    /\ WrittenField(Writes[1].arg) = "cpi_on"
    /\ Writes[1].arg[3] = 1
    /\ exit_code = 0

\* The wire format as the specification states it: opcode and sub-selector
\* of each command.
HeaderOf(f) ==
    CASE f = "mode" -> <<2, 0>>
      [] f = "cpi_off" -> <<3, 1>>
      [] f = "cpi_on" -> <<3, 2>>
      [] f = "polling" -> <<4, 0>>
      [] f = "intensity" -> <<5, 1>>
      [] f = "pulsation" -> <<7, 1>>
      [] f = "save" -> <<9, 0>>

\* The value a command carries: the setting parse_options stored, 0 for save.
ValueOf(f) ==
    CASE f = "mode" -> new_config.mode
      [] f = "cpi_off" -> new_config.cpi_off
      [] f = "cpi_on" -> new_config.cpi_on
      [] f = "polling" -> new_config.polling
      [] f = "intensity" -> new_config.intensity
      [] f = "pulsation" -> new_config.pulsation
      [] f = "save" -> 0

\* The requested commands, in the fixed order.
AskedInOrder == SelectSeq(FixedOrder, AskedFor)

\* C15: the i-th write sent is the i-th requested command, a buffer of 32
\* bytes: byte 0 its opcode and byte 1 its sub-selector (mode 0x02 0, CPI 0x03
\* with 1 for LED off and 2 for LED on, polling 0x04 0, intensity 0x05 1,
\* pulsation 0x07 1, save-to-ROM 0x09 0), byte 2 the setting's value (0 for
\* save-to-ROM), bytes 3..31 zero; the six opcodes are pairwise distinct.
C15_CommandLayout ==
    /\ Len(Writes) <= Len(AskedInOrder)
    /\ \A i \in 1..Len(Writes) :
         LET f == AskedInOrder[i]
             cmd == Writes[i].arg
         IN  /\ Len(cmd) = 32
             /\ <<cmd[1], cmd[2]>> = HeaderOf(f)
             /\ cmd[3] = ValueOf(f)
             /\ \A k \in 4..32 : cmd[k] = 0
    /\ Cardinality({sensei_set_mode(1)[1], sensei_set_cpi(1, FALSE)[1],
                    sensei_set_polling(1)[1], sensei_set_intensity(1)[1],
                    sensei_set_pulsation(1)[1], sensei_save_to_rom[1]}) = 6

\* C15's case: both CPI commands and the save command were sent.
C15_Witness ==
    /\ pc = "returned"
    /\ Len(Writes) = 3
    /\ <<Writes[1].arg[1], Writes[1].arg[2], Writes[1].arg[3]>> = <<3, 1, 10>>
    /\ <<Writes[2].arg[1], Writes[2].arg[2], Writes[2].arg[3]>> = <<3, 2, 20>>
    /\ <<Writes[3].arg[1], Writes[3].arg[2], Writes[3].arg[3]>> = <<9, 0, 0>>

\* The valid wire values of a setting.
WireRange(f) ==
    CASE f = "mode" -> 1..2
      [] f \in {"polling", "intensity", "pulsation"} -> 1..4
      [] f \in {"cpi_off", "cpi_on"} -> 1..63
      [] OTHER -> {}

\* C16: whatever command line parse_options accepts, every setting it has
\* flagged holds a value of that setting's wire range, every field-write
\* command sent carries such a value (never 0) in byte 2, and sensei_set_cpi's
\* assertion never fails.
C16_WireRange ==
    /\ pc # "aborted"
    /\ \A f \in {"mode", "polling", "intensity", "pulsation", "cpi_off", "cpi_on"} :
         AskedFor(f) => ValueOf(f) \in WireRange(f)
    /\ \A i \in 1..Len(Writes) :
         WrittenField(Writes[i].arg) # "save" =>
             Writes[i].arg[3] \in WireRange(WrittenField(Writes[i].arg))

\* C16's case: a CPI far beyond the range was accepted and written as step 63.
C16_Witness ==
    /\ pc = "returned"
    /\ stderr = <<Msg("Notice", "CPI too high", 0)>>
    /\ Len(Writes) = 1
    /\ WrittenField(Writes[1].arg) = "cpi_off"
    /\ Writes[1].arg[3] = 63

\* ---- reading what the show operation printed

\* The status reads that transferred the whole report, and those the program
\* takes for a success (no libusb error).
FullReadsAt == {i \in At("get_report") : calls[i].res = 256}
AcceptedReadsAt == {i \in At("get_report") : calls[i].res >= 0}

\* The wire codes 1..4 as the specification names them.
IntensityWords == <<"off", "low", "medium", "high">>
PulsationWords == <<"steady", "slow", "medium", "fast">>
PollingWords == <<"1000Hz", "500Hz", "250Hz", "125Hz">>

WordOf(words, byte) == IF byte \in 1..4 THEN words[byte] ELSE "unknown"

ShowLabels ==
    <<"Backlight intensity", "Backlight pulsation", "Speed in CPI (LED is off)",
      "Speed in CPI (LED is on)", "Polling frequency">>

\* C17: after a status read that transferred the 256-byte report, what is
\* shown is the report's bytes at offsets 102 (intensity), 103 (pulsation),
\* 107 (CPI-off), 108 (CPI-on) and 128 (polling), the codes 1..4 named
\* off/low/medium/high, steady/slow/medium/fast and 1000/500/250/125 Hz and the
\* CPI steps multiplied by 90; the bytes 3, 2, 5, 10, 1 are shown as medium,
\* slow, 450, 900, 1000Hz.
C17_StatusDecoding ==
    /\ FullReadsAt # {} =>
         LET data == StatusReport(report)
         IN  /\ Len(stdout) = 5
             /\ data[102] \in 1..4 => stdout[1].text = IntensityWords[data[102]]
             /\ data[103] \in 1..4 => stdout[2].text = PulsationWords[data[103]]
             /\ stdout[3].number = 90 * data[107]
             /\ stdout[4].number = 90 * data[108]
             /\ data[128] \in 1..4 => stdout[5].text = PollingWords[data[128]]
    /\ (FullReadsAt # {} /\ report = SampleSettings) =>
         /\ <<stdout[1].text, stdout[2].text, stdout[5].text>> = <<"medium", "slow", "1000Hz">>
         /\ <<stdout[3].number, stdout[4].number>> = <<450, 900>>

\* C17's case: the report with the bytes 3, 2, 5, 10, 1 was read and shown.
C17_Witness ==
    /\ pc = "returned"
    /\ report = SampleSettings
    /\ FullReadsAt # {}
    /\ stdout[4] = Line("Speed in CPI (LED is on)", "", 900)
    /\ exit_code = 0

\* C18: after every status read whose transfer did not fail, whatever bytes
\* it delivered, the show operation has succeeded (no "operation failed", and
\* exit status 0 unless the teardown fails) and has printed exactly five
\* lines labelled, in this order, intensity, pulsation, CPI-off, CPI-on,
\* polling; an intensity, pulsation or polling byte outside 1..4 is printed as
\* "unknown", a polling byte inside as a frequency ending in "Hz".
C18_ShowPrintsFiveLines ==
    AcceptedReadsAt # {} =>
        /\ Len(stdout) = 5
        /\ [i \in 1..5 |-> stdout[i].label] = ShowLabels
        /\ stdout[1].text \in Range(IntensityWords) \cup {"unknown"}
        /\ stdout[2].text \in Range(PulsationWords) \cup {"unknown"}
        /\ stdout[5].text \in Range(PollingWords) \cup {"unknown"}
        /\ FullReadsAt # {} =>
              /\ stdout[1].text = WordOf(IntensityWords, report.intensity)
              /\ stdout[2].text = WordOf(PulsationWords, report.pulsation)
              /\ stdout[5].text = WordOf(PollingWords, report.polling)
        /\ \A k \in 1..Len(stderr) : stderr[k].msg # "operation failed"
        /\ (pc \in {"error_4", "error_3", "error_2", "error_1", "error_0", "returned"}
              /\ FailedAt("release_interface") = {}
              /\ FailedAt("attach_kernel_driver") = {}) => status = 0
        /\ pc = "returned" => exit_code = status

\* C18's case: a report whose polling byte is no known code was shown, the
\* polling frequency as "unknown", and the invocation succeeded.
C18_Witness ==
    /\ pc = "returned"
    /\ FullReadsAt # {}
    /\ report.polling \notin 1..4
    /\ stdout[5] = Line("Polling frequency", "unknown", 0)
    /\ exit_code = 0

\* C19: after every status read the program takes for a success, the two CPI
\* values of the snapshot shown are steps in [1, 63]: the speeds displayed lie
\* between 90 and 5670.
C19_SnapshotCpiInRange ==
    AcceptedReadsAt # {} =>
        /\ stdout[3].number \in {90 * step : step \in 1..63}
        /\ stdout[4].number \in {90 * step : step \in 1..63}

\* C20: every step s of 1..63 is displayed as 90 * s, and that displayed
\* number, given back as a CPI argument, is encoded as s again, without a
\* notice.
C20_CpiRoundTrip ==
    /\ \A step \in 1..63 : DisplayedCpi(step) = 90 * step
    /\ [][\A o \in {"cpi-on", "cpi-off"}, step \in 1..63 :
             (ReadsNumeral(o) /\ NextNumeral = FormatDecimal(DisplayedCpi(step))) =>
                 /\ new_config'[CpiField(o)] = step
                 /\ stderr' = stderr]_vars

\* C20's case: the speed displayed for step 63 was encoded and written as
\* step 63, without a notice.
C20_Witness ==
    /\ pc = "returned"
    /\ stderr = <<>>
    /\ Len(Writes) = 1
    /\ WrittenField(Writes[1].arg) = "cpi_on"
    /\ Writes[1].arg[3] = 63
    /\ exit_code = 0

\* The calls after which the interface is no longer (or not yet) this process's.
EndsClaimAt == At("release_interface") \cup At("close") \cup At("exit")

\* C21: every control transfer, write or status read, is issued while the
\* interface is claimed: a successful claim precedes it and no release, close
\* or exit does; an invocation in which discovery opened nothing or the driver
\* query, the detach or the claim failed issues no transfer at all.
C21_TransfersWhileClaimed ==
    /\ \A t \in TransfersAt :
         /\ \E c \in At("claim_interface") : c < t /\ calls[c].res = 0
         /\ \A e \in EndsClaimAt : t < e
    /\ ( \/ FailedAt("claim_interface") # {}
         \/ FailedAt("detach_kernel_driver") # {}
         \/ \E q \in At("kernel_driver_active") :
               calls[q].res \notin {0, 1, LIBUSB_ERROR_NOT_SUPPORTED}
         \/ ~Succeeded("open") ) => TransfersAt = {}

\* C21's case: two writes were sent between the successful claim and the
\* release, and main returned.
C21_Witness ==
    /\ pc = "returned"
    /\ Len(Writes) = 2
    /\ \E c \in At("claim_interface"), r \in At("release_interface") :
          \A t \in TransfersAt : c < t /\ t < r

\* C22: after a failed claim no control transfer and no release is attempted;
\* a kernel driver that was detached is reattached, once, as the very next
\* call, and the handle is closed after it; and on every path through main a
\* successful detach is followed by a reattach before the close.
C22_ClaimFailureReattaches ==
    /\ \A i \in FailedAt("claim_interface") :
         /\ TransfersAt = {}
         /\ At("release_interface") = {}
         /\ Cardinality(At("attach_kernel_driver")) <= 1
         /\ i < Len(calls) =>
               calls[i + 1].op = (IF Succeeded("detach_kernel_driver")
                                  THEN "attach_kernel_driver" ELSE "close")
         /\ pc = "returned" =>
               /\ At("close") # {}
               /\ Cardinality(At("attach_kernel_driver")) =
                      (IF Succeeded("detach_kernel_driver") THEN 1 ELSE 0)
               /\ exit_code = 1
    /\ Succeeded("detach_kernel_driver") =>
         \A c \in At("close") : \E a \in At("attach_kernel_driver") : a < c

\* C22's case: the driver was detached, the claim failed, and main returned
\* after the reattach and the close.
C22_Witness ==
    /\ pc = "returned"
    /\ Succeeded("detach_kernel_driver")
    /\ FailedAt("claim_interface") # {}
    /\ Succeeded("attach_kernel_driver")
    /\ At("close") # {}

\* C23: with the show flag set, apply_options issues one status read and no
\* write command at all, whatever settings and save-to-ROM were requested
\* with it; the skipped writes are not reported, and an invocation in which
\* no step fails returns success.
C23_ShowSkipsWrites ==
    options.show_config =>
        /\ Writes = <<>>
        /\ Cardinality(At("get_report")) <= 1
        /\ (Succeeded("claim_interface") /\ pc # "apply") =>
              Cardinality(At("get_report")) = 1
        /\ (pc = "returned" /\ ~AnyStepFailed) =>
              /\ exit_code = 0
              /\ \A k \in 1..Len(stderr) : stderr[k].kind = "Notice"
              /\ Len(stdout) = 5

\* C23's case: show was given together with a mode and save-to-ROM; the
\* status was read once, nothing was written, and main returned success.
C23_Witness ==
    /\ pc = "returned"
    /\ options.show_config /\ options.set_mode /\ options.save_to_rom
    /\ Cardinality(At("get_report")) = 1
    /\ Writes = <<>>
    /\ exit_code = 0

\* C24: no command line the front end spawns (load: --show; apply: --polling,
\* --cpi-on, --cpi-off, --pulsation, --intensity, --save; the mode buttons:
\* --mode for normal and for legacy) ends in parse_options' exit on an
\* argument it does not accept.
C24_GuiArgumentsAccepted ==
    /\ ~(pc = "exited" /\ exit_code = EXIT_FAILURE)
    /\ \A k \in 1..Len(stderr) :
          stderr[k].msg \notin {"invalid mode", "invalid polling frequency",
                                "invalid CPI value", "invalid backlight pulsation",
                                "invalid backlight intensity", "extra parameters"}

====
